---- MODULE Spec2Model ----
(***************************************************************************)
(* Model of the profile store (internal/storage/directory.go) and the      *)
(* sharing engine (internal/sharing/manager.go) of cxa, over an explicit   *)
(* model of the part of the file system they operate on.                   *)
(*                                                                         *)
(* The file system is one tree rooted at the user's home directory.  A     *)
(* node is a regular file, a symbolic link, or a directory mapping entry   *)
(* names to nodes.  Paths are sequences of names from the home directory.  *)
(* The two JSON singletons under ~/.codex-switch (state.json and           *)
(* sharing.json) are kept in variables of their own.                       *)
(*                                                                         *)
(* An operation is a function from the files before it to the files after  *)
(* it and its result, written as the code's steps in order; a step that    *)
(* takes the result of the step before it is an operator of its own.  The  *)
(* bytes of a profile's metadata file stand for the profile's name alone   *)
(* (no timestamps), a file of the codex tool for a number.  The system     *)
(* calls fail only as the tree makes them fail (a missing parent, an entry *)
(* in the way, a file that may not be read); a disk that fails on its own  *)
(* is not modelled.                                                        *)
(*                                                                         *)
(* The specifications: Spec is the profile store with the codex tool       *)
(* writing to ~/.codex; SpecShare adds the sharing commands; SpecHist is   *)
(* the store with savedLive, the history of what each save captured;       *)
(* SpecManager is the sharing manager's operations called in any order and *)
(* in any mode; SpecSwitch is Save and Activate of one profile among them; *)
(* SpecDegraded is the store over state and metadata files that were       *)
(* removed or left undecodable; SpecNames is the store given the empty     *)
(* name; SpecFail is the store over files that may not be read, with       *)
(* liveOf, the profile the live directory belongs to; SpecRace is two      *)
(* processes running one Save or Activate each, step by step.              *)
(***************************************************************************)
EXTENDS Integers, Sequences, FiniteSets, TLC

VARIABLES
    fs,          \* the tree under the home directory (~/.codex and ~/codex-data)
    stateFile,   \* ~/.codex-switch/state.json
    sharingFile, \* ~/.codex-switch/sharing.json
    savedLive,   \* per profile, the live directory as it was when last saved
    last,        \* the last operation: its name, its arguments and its result
    liveOf,      \* the profile ~/.codex was last saved as or restored from
    procs,       \* per process, the operation it runs and the step it is at
    beforeWrite, \* what current was just before the last write of state.json
    overlap      \* whether a process has taken a step while another was running

vars == <<fs, stateFile, sharingFile, savedLive, last, liveOf, procs, beforeWrite,
          overlap>>

\* The variables of the runs of two processes.
procVars == <<procs, beforeWrite, overlap>>

---------------------------------------------------------------------------
(* Bounds of the model *)

\* File contents written by the codex tool are drawn from 1..MaxData.
MaxData == 2

Data == 1..MaxData

\* The contents of a file in the runs that hold the sharing commands or the
\* history of the saves.
MaxSmallData == 1

SmallData == 1..MaxSmallData

\* The answers given to the "Also share settings" question of cxa share enable.
IncludeSettings == {FALSE}

\* Profile names given to Save, Activate and Delete.
ProfileNames == {"a", "b"}

---------------------------------------------------------------------------
(* Nodes of the file system *)

NoNode == [k |-> "none"]

File(d) == [k |-> "file", d |-> d]

\* A file written by os.WriteFile(dest, []byte{}, 0644).
EmptyFile == [k |-> "file", d |-> 0]

\* The metadata sidecar: the JSON encoding of an account.Account.  Its bytes
\* are modelled by the account's name (timestamps are not modelled).
MetaFile(acc) == [k |-> "file", acc |-> acc]

\* A file of mode 000, which the process may not open for reading.
Unreadable(d) == [k |-> "file", d |-> d, unreadable |-> TRUE]

Readable(node) == "unreadable" \notin DOMAIN node

Link(t) == [k |-> "link", t |-> t]

Dir(e) == [k |-> "dir", e |-> e]

EmptyDir == Dir([n \in {} |-> NoNode])

\* Lexical (byte) order of the entry names, the order filepath.Walk visits
\* the entries of a directory in.
NameOrder ==
    << ".account.json", ".codex-global-state.json", "a", "accounts", "auth.json",
       "b", "config.toml", "groups", "history.jsonl", "latest", "sessions",
       "settings.json", "shared", "sqlite", "x.json" >>

---------------------------------------------------------------------------
(* Paths: pkg/codex *)

Home == << ".codex" >>

DataDir == << "codex-data" >>

SharedDir == << "codex-data", "shared" >>

GroupsDir == << "codex-data", "groups" >>

AccountsDir == DataDir \o << "accounts" >>

\* filepath.Join drops an empty element.
AccountPath(name) == IF name = "" THEN AccountsDir ELSE Append(AccountsDir, name)

\* The shareable items with the credentials among them.
ShareableItemsWithAuth ==
    << "sessions", "sqlite", "history.jsonl", ".codex-global-state.json", "auth.json" >>

ShareableItems == << "sessions", "sqlite", "history.jsonl", ".codex-global-state.json" >>

AccountSpecificItems == << "auth.json", "license.secret" >>

OptionalShareableItems == << "config.toml", "settings.json" >>

\* filepath.Ext(item) # "": the item's name has an extension.
HasExt(item) ==
    item \in {"history.jsonl", ".codex-global-state.json", "config.toml", "settings.json"}

---------------------------------------------------------------------------
(* File-system primitives *)

\* The node at path p of the tree, no symbolic link followed.
RECURSIVE NodeAt(_, _)
NodeAt(root, p) ==
    IF p = << >> THEN root
    ELSE IF root.k # "dir" THEN NoNode
    ELSE IF Head(p) \notin DOMAIN root.e THEN NoNode
    ELSE NodeAt(root.e[Head(p)], Tail(p))

\* The tree with the node at p replaced by node (removed when node is NoNode).
\* The parent of p must be a directory, else nothing changes.
RECURSIVE SetAt(_, _, _)
SetAt(root, p, node) ==
    IF p = << >> THEN node
    ELSE IF root.k # "dir" THEN root
    ELSE LET h == Head(p)
             child == IF h \in DOMAIN root.e THEN root.e[h] ELSE NoNode
             new == SetAt(child, Tail(p), node)
         IN  IF new.k = "none"
             THEN Dir([n \in DOMAIN root.e \ {h} |-> root.e[n]])
             ELSE Dir((h :> new) @@ root.e)

\* The walk down path rest from node (found at the resolved path done): the
\* symbolic links on the way are followed, the last element too when follow
\* is TRUE.  [p, n]: the resolved path and the node there (NoNode if absent).
RECURSIVE Walk(_, _, _, _, _)
Walk(root, node, done, rest, follow) ==
    IF rest = << >> THEN [p |-> done, n |-> node]
    ELSE IF node.k # "dir" \/ Head(rest) \notin DOMAIN node.e
    THEN [p |-> done \o rest, n |-> NoNode]
    ELSE LET c == node.e[Head(rest)]
         IN  IF c.k = "link" /\ (Len(rest) > 1 \/ follow)
             THEN Walk(root, root, << >>, c.t \o Tail(rest), follow)
             ELSE Walk(root, c, Append(done, Head(rest)), Tail(rest), follow)

Canon(root, p, follow) == Walk(root, root, << >>, p, follow).p

\* os.Lstat
Lstat(root, p) == Walk(root, root, << >>, p, FALSE).n

\* os.Stat
Stat(root, p) == Walk(root, root, << >>, p, TRUE).n

Exists(node) == node.k # "none"

ParentOf(p) == SubSeq(p, 1, Len(p) - 1)

\* os.RemoveAll and os.Remove: the entry itself goes, a link is not followed.
RemoveAll(root, p) == SetAt(root, Canon(root, p, FALSE), NoNode)

\* os.MkdirAll: [fs, err]
RECURSIVE MkdirAllFrom(_, _, _)
MkdirAllFrom(root, done, rest) ==
    IF rest = << >> THEN [fs |-> root, err |-> FALSE]
    ELSE LET w == Walk(root, root, << >>, Append(done, Head(rest)), TRUE)
         IN  IF w.n.k = "none" THEN MkdirAllFrom(SetAt(root, w.p, EmptyDir), w.p, Tail(rest))
             ELSE IF w.n.k = "dir" THEN MkdirAllFrom(root, w.p, Tail(rest))
             ELSE [fs |-> root, err |-> TRUE]

MkdirAll(root, p) == MkdirAllFrom(root, << >>, p)

\* os.WriteFile and os.OpenFile(O_CREATE|O_WRONLY|O_TRUNC): [fs, err]
WriteFile(root, p, node) ==
    LET w == Walk(root, root, << >>, p, TRUE)
    IN  IF w.p = << >> \/ NodeAt(root, ParentOf(w.p)).k # "dir" \/ w.n.k = "dir"
        THEN [fs |-> root, err |-> TRUE]
        ELSE [fs |-> SetAt(root, w.p, node), err |-> FALSE]

\* os.Symlink(target, p): [fs, err]
Symlink(root, target, p) ==
    LET w == Walk(root, root, << >>, p, FALSE)
    IN  IF w.p = << >> \/ NodeAt(root, ParentOf(w.p)).k # "dir" \/ Exists(w.n)
        THEN [fs |-> root, err |-> TRUE]
        ELSE [fs |-> SetAt(root, w.p, Link(target)), err |-> FALSE]

\* os.Rename(src, dest): [fs, err]
Rename(root, src, dest) ==
    LET s == Walk(root, root, << >>, src, FALSE)
        d == Canon(root, dest, FALSE)
    IN  IF ~Exists(s.n) \/ d = << >> \/ NodeAt(root, ParentOf(d)).k # "dir"
        THEN [fs |-> root, err |-> TRUE]
        ELSE [fs |-> SetAt(SetAt(root, s.p, NoNode), d, s.n), err |-> FALSE]

---------------------------------------------------------------------------
(* internal/storage/directory.go: copyDir, copyFile *)

\* copyFile(src, dst): the bytes of src written to dst, created or truncated;
\* os.Open fails on a file that may not be read.
copyFile(root, node, dst) ==
    IF ~Readable(node) THEN [fs |-> root, err |-> TRUE] ELSE WriteFile(root, dst, node)

\* copyDir(src, dst) by filepath.Walk: the directory itself, then its entries
\* in lexical order; a symbolic link is recreated with the same target, never
\* followed; the first error ends the walk and leaves what was copied so far.
RECURSIVE CopyNode(_, _, _)
RECURSIVE CopyEntries(_, _, _, _)
RECURSIVE CopyRest(_, _, _, _)
\* The walk function that copies what a symbolic link points at.
CopyNodeFollowsLinks(root, node, dst) ==
    IF node.k = "link"
    THEN IF Stat(root, node.t).k = "dir"
         THEN CopyRest(MkdirAll(root, dst), Stat(root, node.t), 1, dst)
         ELSE IF Stat(root, node.t).k = "file" THEN copyFile(root, Stat(root, node.t), dst)
         ELSE [fs |-> root, err |-> TRUE]
    ELSE IF node.k = "dir" THEN CopyRest(MkdirAll(root, dst), node, 1, dst)
    ELSE copyFile(root, node, dst)

CopyNode(root, node, dst) ==
    IF node.k = "link" THEN Symlink(root, node.t, dst)
    ELSE IF node.k = "dir" THEN CopyRest(MkdirAll(root, dst), node, 1, dst)
    ELSE copyFile(root, node, dst)

CopyEntries(root, node, i, dst) ==
    IF i > Len(NameOrder) THEN [fs |-> root, err |-> FALSE]
    ELSE IF NameOrder[i] \notin DOMAIN node.e THEN CopyEntries(root, node, i + 1, dst)
    ELSE CopyRest(CopyNode(root, node.e[NameOrder[i]], Append(dst, NameOrder[i])),
                  node, i + 1, dst)

\* The walk after the step with result r: ended by an error, else it goes on
\* with the entries from the i-th.
CopyRest(r, node, i, dst) == IF r.err THEN r ELSE CopyEntries(r.fs, node, i, dst)

copyDir(root, src, dst) ==
    LET n == Lstat(root, src)
    IN  IF ~Exists(n) THEN [fs |-> root, err |-> TRUE] ELSE CopyNode(root, n, dst)

---------------------------------------------------------------------------
(* pkg/codex: EnsureDirs, CodexExists *)

\* EnsureDirs: DataDir, StateDir and AccountsDir (StateDir is not part of the
\* modelled tree).
EnsureDirs(root) == MkdirAll(MkdirAll(root, DataDir).fs, AccountsDir).fs

CodexExists(root) == Exists(Stat(root, Home))

---------------------------------------------------------------------------
(* internal/storage/directory.go: the state record *)

NoFile == [k |-> "none"]

CorruptFile == [k |-> "corrupt"]

StateRec(current, previous) == [k |-> "state", current |-> current, previous |-> previous]

\* loadState that takes an undecodable file for a record naming "a".
loadStateGuessesCurrent(sf) ==
    IF sf.k = "state" THEN sf
    ELSE IF sf.k = "corrupt" THEN StateRec("a", "") ELSE StateRec("", "")

\* loadState: an absent or undecodable file is the zero State.
loadState(sf) == IF sf.k = "state" THEN sf ELSE StateRec("", "")

\* Current
Current(sf) == loadState(sf).current

\* saveState with the shift of current into previous left out.
saveStateKeepsPrevious(sf, current) == StateRec(current, loadState(sf).previous)

\* The write of saveState that leaves previous as it was loaded.
writeStateKeepsPrevious(state, current) == StateRec(current, state.previous)

\* saveState after its loadState returned state: the record it writes.
writeState(state, current) == StateRec(current, state.current)

\* saveState: previous <- current, current <- the new name, whole-file write.
saveState(sf, current) == StateRec(current, loadState(sf).current)

---------------------------------------------------------------------------
(* internal/storage/directory.go: Get, List, Save, Delete *)

MetaPath(name) == Append(AccountPath(name), ".account.json")

\* Get that takes a metadata file that does not decode for an absent one.
GetIgnoresCorrupt(root, name) ==
    LET dir == Stat(root, AccountPath(name))
        meta == Stat(root, MetaPath(name))
    IN  IF meta.k = "file" /\ "acc" \in DOMAIN meta THEN [res |-> "ok", acc |-> meta.acc]
        ELSE IF dir.k = "dir" THEN [res |-> "ok", acc |-> name]
        ELSE [res |-> "notfound", acc |-> ""]

\* Get: [res, acc]
Get(root, name) ==
    LET meta == Stat(root, MetaPath(name))
        dir == Stat(root, AccountPath(name))
    IN  IF ~Exists(meta)
        THEN IF dir.k = "dir" THEN [res |-> "ok", acc |-> name]
             ELSE IF dir.k = "none" THEN [res |-> "notfound", acc |-> ""]
             ELSE [res |-> "error", acc |-> ""]
        ELSE IF meta.k = "file" /\ "acc" \in DOMAIN meta
        THEN [res |-> "ok", acc |-> meta.acc]
        ELSE [res |-> "error", acc |-> ""]

\* List: the names of the accounts returned, in directory order.
RECURSIVE ListFrom(_, _)
ListFrom(root, i) ==
    IF i > Len(NameOrder) THEN << >>
    ELSE LET n == NameOrder[i]
             entry == Lstat(root, Append(AccountsDir, n))
         IN  IF entry.k = "dir" /\ Get(root, n).res = "ok"
             THEN << Get(root, n).acc >> \o ListFrom(root, i + 1)
             ELSE ListFrom(root, i + 1)

List(root) == ListFrom(EnsureDirs(root), 1)

Range(s) == {s[i] : i \in DOMAIN s}

\* Save, the metadata file written with result m: the state record is saved.
SaveWritten(m, sf, name) ==
    IF m.err THEN [fs |-> m.fs, state |-> sf, res |-> "ioerror"]
    ELSE [fs |-> EnsureDirs(m.fs), state |-> saveState(sf, name), res |-> "ok"]

\* Save, the live directory copied with result c: the metadata file is written.
SaveCopied(c, sf, name) ==
    IF c.err THEN [fs |-> c.fs, state |-> sf, res |-> "ioerror"]
    ELSE SaveWritten(WriteFile(c.fs, MetaPath(name), MetaFile(name)), sf, name)

\* Save that copies over the previous snapshot without removing it first.
SaveMerges(root, sf, name) ==
    IF ~CodexExists(root) THEN [fs |-> root, state |-> sf, res |-> "precondition"]
    ELSE SaveCopied(copyDir(EnsureDirs(root), Home, AccountPath(name)), sf, name)

\* Save with the check of the live directory left out.
SaveWithoutCodexCheck(root, sf, name) ==
    SaveCopied(copyDir(RemoveAll(EnsureDirs(root), AccountPath(name)),
                       Home, AccountPath(name)),
               sf, name)

\* Save: [fs, state, res]
Save(root, sf, name) ==
    IF ~CodexExists(root) THEN [fs |-> root, state |-> sf, res |-> "precondition"]
    ELSE SaveCopied(copyDir(RemoveAll(EnsureDirs(root), AccountPath(name)),
                            Home, AccountPath(name)),
                    sf, name)

\* Delete that removes the metadata file and leaves the snapshot's files.
DeleteMetadataOnly(root, name) ==
    IF ~Exists(Stat(root, AccountPath(name))) THEN [fs |-> root, res |-> "notfound"]
    ELSE [fs |-> RemoveAll(root, MetaPath(name)), res |-> "ok"]

\* Delete: [fs, res]
Delete(root, name) ==
    IF ~Exists(Stat(root, AccountPath(name))) THEN [fs |-> root, res |-> "notfound"]
    ELSE [fs |-> RemoveAll(root, AccountPath(name)), res |-> "ok"]

---------------------------------------------------------------------------
(* internal/sharing/manager.go: configuration *)

NoGroups == [n \in {} |-> ""]

ConfigRec(mode, includeSettings, groups) ==
    [k |-> "config", mode |-> mode, include_settings |-> includeSettings, groups |-> groups]

\* NewManager: &Config{Mode: ModeDisabled}
DefaultConfig == ConfigRec("disabled", FALSE, NoGroups)

\* LoadConfig on a new manager: [config, err].  An absent file is the default
\* configuration; an undecodable file is an error and leaves the manager's
\* configuration as NewManager set it.
LoadConfig(cf) ==
    IF cf.k = "none" THEN [config |-> DefaultConfig, err |-> FALSE]
    ELSE IF cf.k = "config" THEN [config |-> cf, err |-> FALSE]
    ELSE [config |-> DefaultConfig, err |-> TRUE]

\* SaveConfig: the whole configuration written over the file.
SaveConfig(config) == config

IsEnabled(config) == config.mode = "global" \/ config.mode = "group"

\* getShareTarget: the directory the items are linked into, << >> for "".
getShareTarget(config, account) ==
    IF config.mode = "global" THEN SharedDir
    ELSE IF config.mode = "group" /\ account \in DOMAIN config.groups
    THEN Append(GroupsDir, config.groups[account])
    ELSE << >>

---------------------------------------------------------------------------
(* internal/sharing/manager.go: copyPath, copyDir, copyFile *)

\* copyFile(src, dst): os.ReadFile follows links and fails on a directory.
sharing_copyFile(root, src, dst) ==
    LET n == Stat(root, src)
    IN  IF n.k # "file" \/ ~Readable(n) THEN [fs |-> root, err |-> TRUE]
        ELSE WriteFile(root, dst, n)

\* copyDir(src, dst): as the store's copyDir, but a symbolic link is copied
\* as the file it points at.
RECURSIVE sharing_CopyNode(_, _, _)
RECURSIVE sharing_CopyEntries(_, _, _, _)
RECURSIVE sharing_CopyRest(_, _, _, _)
sharing_CopyNode(root, src, dst) ==
    IF Lstat(root, src).k = "dir"
    THEN sharing_CopyRest(MkdirAll(root, dst), src, 1, dst)
    ELSE sharing_copyFile(root, src, dst)

sharing_CopyEntries(root, src, i, dst) ==
    IF i > Len(NameOrder) THEN [fs |-> root, err |-> FALSE]
    ELSE IF NameOrder[i] \notin DOMAIN Lstat(root, src).e
    THEN sharing_CopyEntries(root, src, i + 1, dst)
    ELSE sharing_CopyRest(sharing_CopyNode(root, Append(src, NameOrder[i]),
                                           Append(dst, NameOrder[i])),
                          src, i + 1, dst)

\* The walk after the step with result r: ended by an error, else it goes on
\* with the entries from the i-th.
sharing_CopyRest(r, src, i, dst) ==
    IF r.err THEN r ELSE sharing_CopyEntries(r.fs, src, i, dst)

sharing_copyDir(root, src, dst) ==
    IF ~Exists(Lstat(root, src)) THEN [fs |-> root, err |-> TRUE]
    ELSE sharing_CopyNode(root, src, dst)

copyPath(root, src, dst) ==
    LET info == Stat(root, src)
    IN  IF ~Exists(info) THEN [fs |-> root, err |-> TRUE]
        ELSE IF info.k = "dir" THEN sharing_copyDir(root, src, dst)
        ELSE sharing_copyFile(root, src, dst)

---------------------------------------------------------------------------
(* internal/sharing/manager.go: SetupSymlinks, RemoveSymlinks, Status *)

\* setupSymlink, last step: with the target made (result mk), the symlink
\* is created at src.
linkItem(mk, src, dest) == IF mk.err THEN mk ELSE Symlink(mk.fs, dest, src)

\* setupSymlink, the real data moved with result mv: a target that does not
\* exist is created, an empty file or an empty directory.
ensureTarget(mv, src, dest, item) ==
    IF mv.err THEN mv
    ELSE linkItem(IF ~Exists(Stat(mv.fs, dest))
                  THEN IF HasExt(item) THEN WriteFile(mv.fs, dest, EmptyFile)
                       ELSE MkdirAll(mv.fs, dest)
                  ELSE [fs |-> mv.fs, err |-> FALSE],
                  src, dest)

\* migrateItem that moves the real data over what the shared location holds.
migrateItemOverwrites(root, l1, src, dest) ==
    IF Exists(l1) /\ l1.k # "link"
    THEN Rename(RemoveAll(root, dest), src, dest)
    ELSE [fs |-> root, err |-> FALSE]

\* migrateItem that drops the real data instead of moving it.
migrateItemDropsData(root, l1, src, dest) ==
    IF Exists(l1) /\ l1.k # "link"
    THEN [fs |-> RemoveAll(root, src), err |-> FALSE]
    ELSE [fs |-> root, err |-> FALSE]

\* setupSymlink, l1 the entry at src: real data is moved to the shared
\* location, or dropped when the shared location is taken.
migrateItem(root, l1, src, dest) ==
    IF Exists(l1) /\ l1.k # "link"
    THEN IF ~Exists(Stat(root, dest)) THEN Rename(root, src, dest)
         ELSE [fs |-> RemoveAll(root, src), err |-> FALSE]
    ELSE [fs |-> root, err |-> FALSE]

\* setupSymlink from the point where no right symlink is at src.
setupFrom(root, src, dest, item) ==
    ensureTarget(migrateItem(root, Lstat(root, src), src, dest), src, dest, item)

\* setupSymlink without the test for a symlink that is already there.
setupOverUnchecked(root, l0, src, dest, item) == setupFrom(root, src, dest, item)

\* setupSymlink, l0 the entry at src: a symlink to dest is left alone, a
\* symlink to another place is removed.
setupOver(root, l0, src, dest, item) ==
    IF l0.k = "link" /\ l0.t = dest THEN [fs |-> root, err |-> FALSE]
    ELSE setupFrom(IF l0.k = "link" THEN RemoveAll(root, src) ELSE root,
                   src, dest, item)

\* setupSymlink(item, targetDir): [fs, err]
setupSymlink(root, item, targetDir) ==
    setupOver(root, Lstat(root, Append(Home, item)),
              Append(Home, item), Append(targetDir, item), item)

\* The loop over a list of items, ended by the first error.
RECURSIVE setupItems(_, _, _, _)
RECURSIVE setupRest(_, _, _, _)
setupItems(root, items, i, targetDir) ==
    IF i > Len(items) THEN [fs |-> root, err |-> FALSE]
    ELSE setupRest(setupSymlink(root, items[i], targetDir), items, i + 1, targetDir)

\* The loop after the step with result r.
setupRest(r, items, i, targetDir) ==
    IF r.err THEN r ELSE setupItems(r.fs, items, i, targetDir)

\* SetupSymlinks, the mandatory items set up with result r: the optional
\* items follow when the settings are shared.
setupOptional(r, config, targetDir) ==
    IF r.err THEN r
    ELSE IF config.include_settings
    THEN setupItems(r.fs, OptionalShareableItems, 1, targetDir)
    ELSE r

\* SetupSymlinks: [fs, err]
SetupSymlinks(root, config) ==
    IF ~IsEnabled(config) THEN [fs |-> root, err |-> FALSE]
    ELSE IF getShareTarget(config, "") = << >> THEN [fs |-> root, err |-> FALSE]
    ELSE setupOptional(setupRest(MkdirAll(root, getShareTarget(config, "")),
                                 ShareableItems, 1, getShareTarget(config, "")),
                       config, getShareTarget(config, ""))

\* RemoveSymlinks: [fs, err]
RECURSIVE removeItems(_, _, _)
RECURSIVE removeItem(_, _, _, _)
RECURSIVE removeRest(_, _, _)
removeItems(root, items, i) ==
    IF i > Len(items) THEN [fs |-> root, err |-> FALSE]
    ELSE removeItem(root, Lstat(root, Append(Home, items[i])), items, i)

\* copyBack that moves the data at the target to src.
copyBackMoves(root, target, src) ==
    IF Exists(Stat(root, target)) THEN Rename(root, target, src)
    ELSE [fs |-> root, err |-> FALSE]

\* The symlink removed (root is the tree without it): the data at its target
\* is copied back to src when the target exists.
copyBack(root, target, src) ==
    IF Exists(Stat(root, target)) THEN copyPath(root, target, src)
    ELSE [fs |-> root, err |-> FALSE]

\* One item of the loop, l the entry at its live path: only a symlink is
\* touched.
removeItem(root, l, items, i) ==
    IF l.k # "link" THEN removeItems(root, items, i + 1)
    ELSE removeRest(copyBack(RemoveAll(root, Append(Home, items[i])), l.t,
                             Append(Home, items[i])),
                    items, i + 1)

\* The loop after the step with result c.
removeRest(c, items, i) == IF c.err THEN c ELSE removeItems(c.fs, items, i)

\* RemoveSymlinks that leaves the optional items as they are.
RemoveMandatorySymlinks(root) == removeItems(root, ShareableItems, 1)

RemoveSymlinks(root) == removeItems(root, ShareableItems \o OptionalShareableItems, 1)

\* Status: the per-item classification.
Status(root, config) ==
    [mode |-> config.mode,
     sharedDir |-> IF config.mode = "global" THEN SharedDir ELSE << >>,
     symlinks |-> [item \in Range(ShareableItems \o OptionalShareableItems) |->
                     LET src == Append(Home, item)
                     IN  IF Lstat(root, src).k = "link" THEN Lstat(root, src).t
                         ELSE IF Exists(Stat(root, src)) THEN << "(local)" >>
                         ELSE << "(missing)" >>]]

\* Enable, the shared directory made with result m: the symlinks are set up
\* under the new configuration c1.
EnableSetup(m, c1) == IF m.err THEN m ELSE SetupSymlinks(m.fs, c1)

\* Enable that saves the configuration whether the set-up failed or not.
EnableLinkedAlwaysSaves(s, cf, c1) ==
    [fs |-> s.fs, file |-> SaveConfig(c1), config |-> c1,
     res |-> IF s.err THEN "ioerror" ELSE "ok"]

\* Enable, the set-up done with result s: the configuration is saved when
\* nothing failed.
EnableLinked(s, cf, c1) ==
    IF s.err THEN [fs |-> s.fs, file |-> cf, config |-> c1, res |-> "ioerror"]
    ELSE [fs |-> s.fs, file |-> SaveConfig(c1), config |-> c1, res |-> "ok"]

\* Enable on a manager holding config: [fs, file, config, res]
Enable(root, cf, config, includeSettings) ==
    EnableLinked(EnableSetup(MkdirAll(root, SharedDir),
                             [config EXCEPT !.mode = "global",
                                            !.include_settings = includeSettings]),
                 cf,
                 [config EXCEPT !.mode = "global", !.include_settings = includeSettings])

\* Disable that flips the mode and saves the configuration whether the
\* symlinks were removed or not.
DisableUnlinkedAlwaysSaves(r, cf, config, c1) ==
    [fs |-> r.fs, file |-> SaveConfig(c1), config |-> c1,
     res |-> IF r.err THEN "ioerror" ELSE "ok"]

\* Disable, the symlinks removed with result r: the configuration c1 is
\* saved when nothing failed.
DisableUnlinked(r, cf, config, c1) ==
    IF r.err THEN [fs |-> r.fs, file |-> cf, config |-> config, res |-> "ioerror"]
    ELSE [fs |-> r.fs, file |-> SaveConfig(c1), config |-> c1, res |-> "ok"]

\* Disable on a manager holding config: [fs, file, config, res]
Disable(root, cf, config) ==
    DisableUnlinked(RemoveSymlinks(root), cf, config,
                    [config EXCEPT !.mode = "disabled", !.include_settings = FALSE])

---------------------------------------------------------------------------
(* internal/storage/directory.go: Activate *)

\* Activate, first step: the current account is saved when it is another
\* one and the live directory exists.
SaveCurrent(root, sf, name) ==
    IF Current(sf) # "" /\ Current(sf) # name /\ CodexExists(root)
    THEN Save(root, sf, Current(sf))
    ELSE [fs |-> root, state |-> sf, res |-> "ok"]

\* Activate that leaves the restored live directory as the snapshot had it.
RelinkNothing(root, l) == root

\* Activate, the symlinks set up again when the configuration loads and
\* sharing is enabled; an error of the setup is dropped.
Relink(root, l) ==
    IF ~l.err /\ IsEnabled(l.config) THEN SetupSymlinks(root, l.config).fs ELSE root

\* Activate, the snapshot copied to ~/.codex with result c.
ActivateCopied(c, state, cf, name) ==
    IF c.err THEN [fs |-> c.fs, state |-> state, res |-> "ioerror"]
    ELSE [fs |-> EnsureDirs(Relink(c.fs, LoadConfig(cf))),
          state |-> saveState(state, name), res |-> "ok"]

\* Activate that goes on to remove ~/.codex when the save has failed.
ActivateSavedIgnoresError(s, cf, name) ==
    ActivateCopied(copyDir(RemoveAll(s.fs, Home), AccountPath(name), Home),
                   s.state, cf, name)

\* Activate, the current account saved with result s: ~/.codex is removed
\* and the snapshot copied in its place.
ActivateSaved(s, cf, name) ==
    IF s.res # "ok" THEN [fs |-> s.fs, state |-> s.state, res |-> "ioerror"]
    ELSE ActivateCopied(copyDir(RemoveAll(s.fs, Home), AccountPath(name), Home),
                        s.state, cf, name)

\* Activate with the check of the snapshot directory left out.
ActivateWithoutStat(root, sf, cf, name) ==
    ActivateSaved(SaveCurrent(root, sf, name), cf, name)

\* Activate: [fs, state, res]
Activate(root, sf, cf, name) ==
    IF ~Exists(Stat(root, AccountPath(name)))
    THEN [fs |-> root, state |-> sf, res |-> "notfound"]
    ELSE ActivateSaved(SaveCurrent(root, sf, name), cf, name)

---------------------------------------------------------------------------
(* The state machine *)

\* The record of an operation: op is its name, name and flag its arguments,
\* res its result, saved the profile Activate saved on the way ("" if none)
\* and moved the items Enable found as real data in the live directory with
\* nothing at their shared location.
Op(op, name, flag, res, saved, moved) ==
    [op |-> op, name |-> name, flag |-> flag, res |-> res, saved |-> saved,
     moved |-> moved]

\* The live directory ~/.codex as a node.
Live(root) == Lstat(root, Home)

\* The processes of a run of two cxa commands at once.
Procs == {"p", "q"}

\* A process: the operation op on the profile name, the step pc it is at,
\* the names todo that its walk has listed and not yet copied, the State
\* that its saveState loaded, and its result.
Proc(pc, op, name, todo, loaded, res) ==
    [pc |-> pc, op |-> op, name |-> name, todo |-> todo, loaded |-> loaded,
     res |-> res]

\* A process that has not started.
Idle == Proc("idle", "", "", << >>, StateRec("", ""), "")

\* A new home directory: no live directory, nothing stored, no state.
Init ==
    /\ fs = EmptyDir
    /\ stateFile = NoFile
    /\ sharingFile = NoFile
    /\ savedLive = [n \in ProfileNames |-> NoNode]
    /\ last = Op("init", "", FALSE, "ok", "", {})
    /\ liveOf = ""
    /\ procs = [p \in Procs |-> Idle]
    /\ beforeWrite = ""
    /\ overlap = FALSE

\* `codex login`: the tool creates ~/.codex when it is absent and writes the
\* credentials.
CodexLogin(d) ==
    /\ fs' = WriteFile(MkdirAll(fs, Home).fs, Append(Home, "auth.json"), File(d)).fs
    /\ last' = Op("codex", "", FALSE, "ok", "", {})
    /\ UNCHANGED <<stateFile, sharingFile, savedLive, liveOf, procVars>>

\* The tool writes a session file under ~/.codex/sessions (through the
\* symbolic link when the sessions are shared).
CodexWrite(d) ==
    /\ CodexExists(fs)
    /\ LET m == MkdirAll(fs, Append(Home, "sessions"))
       IN  /\ ~m.err
           /\ fs' = WriteFile(m.fs, Home \o << "sessions", "x.json" >>, File(d)).fs
    /\ last' = Op("codex", "", FALSE, "ok", "", {})
    /\ UNCHANGED <<stateFile, sharingFile, savedLive, liveOf, procVars>>

\* The user removes ~/.codex.
CodexRemove ==
    /\ Exists(Live(fs))
    /\ fs' = RemoveAll(fs, Home)
    /\ last' = Op("codex", "", FALSE, "ok", "", {})
    /\ UNCHANGED <<stateFile, sharingFile, savedLive, liveOf, procVars>>

\* A store operation with result r = [fs, state, res] takes effect.
StoreStep(op, name, r, saved) ==
    /\ fs' = r.fs
    /\ stateFile' = r.state
    /\ last' = Op(op, name, FALSE, r.res, saved, {})
    /\ UNCHANGED sharingFile

\* cxa save <name>: what Save does to the files and the state record.
SaveStep(name) == StoreStep("Save", name, Save(fs, stateFile, name), "")

DoSave(name) == SaveStep(name) /\ UNCHANGED <<savedLive, liveOf, procVars>>

\* The same step, with the live directory it saved remembered in savedLive.
HistSave(name) ==
    /\ SaveStep(name)
    /\ savedLive' = IF last'.res = "ok" THEN [savedLive EXCEPT ![name] = Live(fs)]
                    ELSE savedLive
    /\ UNCHANGED <<liveOf, procVars>>

\* The profile Activate(name) saves before it switches, "" if none.
ImplicitSave(root, sf, name) ==
    IF Exists(Stat(root, AccountPath(name))) /\ Current(sf) # "" /\ Current(sf) # name
       /\ CodexExists(root)
    THEN Current(sf) ELSE ""

\* cxa switch <name>: what Activate does to the files and the state record.
ActivateStep(name) ==
    StoreStep("Activate", name, Activate(fs, stateFile, sharingFile, name),
              ImplicitSave(fs, stateFile, name))

DoActivate(name) == ActivateStep(name) /\ UNCHANGED <<savedLive, liveOf, procVars>>

\* The same step, with the live directory of its implicit save remembered.
HistActivate(name) ==
    /\ ActivateStep(name)
    /\ savedLive' = IF last'.saved \in ProfileNames /\ last'.res = "ok"
                    THEN [savedLive EXCEPT ![last'.saved] = Live(fs)]
                    ELSE savedLive
    /\ UNCHANGED <<liveOf, procVars>>

\* Repository.Delete
DeleteStep(name) ==
    /\ fs' = Delete(fs, name).fs
    /\ last' = Op("Delete", name, FALSE, Delete(fs, name).res, "", {})
    /\ UNCHANGED <<stateFile, sharingFile>>

DoDelete(name) == DeleteStep(name) /\ UNCHANGED <<savedLive, liveOf, procVars>>

\* The same step: a deleted profile has no saved content any more.
HistDelete(name) ==
    /\ DeleteStep(name)
    /\ savedLive' = IF last'.res = "ok" THEN [savedLive EXCEPT ![name] = NoNode]
                    ELSE savedLive
    /\ UNCHANGED <<liveOf, procVars>>

\* cxa list: List creates the storage directories on its way.
DoList ==
    /\ fs' = EnsureDirs(fs)
    /\ last' = Op("List", "", FALSE, "ok", "", {})
    /\ UNCHANGED <<stateFile, sharingFile, savedLive, liveOf, procVars>>

\* A sharing command with result r = [fs, file, config, res] takes effect.
ShareStep(op, flag, r, moved) ==
    /\ fs' = r.fs
    /\ sharingFile' = r.file
    /\ last' = Op(op, "", flag, r.res, "", moved)
    /\ UNCHANGED <<stateFile, savedLive, liveOf, procVars>>

\* The mandatory shareable items that are real data in the live directory (a
\* file, or a directory that holds something) with nothing at their shared
\* location.
Movable(root) ==
    {item \in Range(ShareableItems) :
        LET n == Lstat(root, Append(Home, item))
        IN  /\ n.k = "file" \/ (n.k = "dir" /\ DOMAIN n.e # {})
            /\ ~Exists(Lstat(root, Append(SharedDir, item)))}

\* cxa share enable: the command returns early when sharing is enabled, else
\* Enable runs on a manager that loaded the configuration.
DoEnable(includeSettings) ==
    /\ ~LoadConfig(sharingFile).err
    /\ ~IsEnabled(LoadConfig(sharingFile).config)
    /\ ShareStep("Enable", includeSettings,
                 Enable(fs, sharingFile, LoadConfig(sharingFile).config, includeSettings),
                 Movable(fs))

\* cxa share disable: the command returns early when sharing is disabled,
\* else Disable runs on a manager that loaded the configuration.
DoDisable ==
    /\ ~LoadConfig(sharingFile).err
    /\ IsEnabled(LoadConfig(sharingFile).config)
    /\ ShareStep("Disable", FALSE,
                 Disable(fs, sharingFile, LoadConfig(sharingFile).config), {})

\* The tool leaves a symbolic link to a session that is gone in its sessions
\* directory.
CodexLinkSession ==
    /\ Stat(fs, Append(Home, "sessions")).k = "dir"
    /\ ~Exists(Lstat(fs, Home \o << "sessions", "latest" >>))
    /\ fs' = Symlink(fs, Home \o << "sessions", "gone.json" >>,
                     Home \o << "sessions", "latest" >>).fs
    /\ last' = Op("codex", "", FALSE, "ok", "", {})
    /\ UNCHANGED <<stateFile, sharingFile, savedLive, liveOf, procVars>>

\* The tool writes its settings file ~/.codex/config.toml (through the
\* symbolic link when the settings are shared).
CodexConfigure(d) ==
    /\ CodexExists(fs)
    /\ fs' = WriteFile(fs, Append(Home, "config.toml"), File(d)).fs
    /\ last' = Op("codex", "", FALSE, "ok", "", {})
    /\ UNCHANGED <<stateFile, sharingFile, savedLive, liveOf, procVars>>

\* A sharing.json written by hand for sharing by group: the account "a" is in
\* the group "g".
GroupConfig == ConfigRec("group", FALSE, [n \in {"a"} |-> "g"])

\* sharing.json as other hands leave it: written for sharing by group, or
\* truncated by a crash in the middle of a write.
EditConfig(cf) ==
    /\ sharingFile # cf
    /\ sharingFile' = cf
    /\ last' = Op("edit", "", FALSE, "ok", "", {})
    /\ UNCHANGED <<fs, stateFile, savedLive, liveOf, procVars>>

\* A manager operation with result r = [fs, err] that leaves sharing.json as
\* it is takes effect.
LinkStep(op, r) ==
    /\ fs' = r.fs
    /\ last' = Op(op, "", FALSE, IF r.err THEN "ioerror" ELSE "ok", "", {})
    /\ UNCHANGED <<stateFile, sharingFile, savedLive, liveOf, procVars>>

\* Manager.Enable on a manager that loaded the configuration, in any mode.
ManagerEnable(includeSettings) ==
    /\ ~LoadConfig(sharingFile).err
    /\ ShareStep("Enable", includeSettings,
                 Enable(fs, sharingFile, LoadConfig(sharingFile).config, includeSettings),
                 Movable(fs))

\* Manager.Disable on a manager that loaded the configuration, in any mode.
ManagerDisable ==
    /\ ~LoadConfig(sharingFile).err
    /\ ShareStep("Disable", FALSE,
                 Disable(fs, sharingFile, LoadConfig(sharingFile).config), {})

\* Manager.SetupSymlinks on a manager that loaded the configuration.
ManagerSetupSymlinks ==
    /\ ~LoadConfig(sharingFile).err
    /\ LinkStep("SetupSymlinks", SetupSymlinks(fs, LoadConfig(sharingFile).config))

\* Manager.RemoveSymlinks
ManagerRemoveSymlinks == LinkStep("RemoveSymlinks", RemoveSymlinks(fs))

\* cxa share status: the command fails when the configuration does not load.
DoStatus ==
    /\ last' = Op("Status", "", FALSE,
                  IF LoadConfig(sharingFile).err THEN "ioerror" ELSE "ok", "", {})
    /\ UNCHANGED <<fs, stateFile, sharingFile, savedLive, liveOf, procVars>>

\* cxa current: Current gives a name and no error.
DoCurrent ==
    /\ last' = Op("Current", Current(stateFile), FALSE, "ok", "", {})
    /\ UNCHANGED <<fs, stateFile, sharingFile, savedLive, liveOf, procVars>>

\* state.json as other hands leave it: removed, or truncated by a crash in
\* the middle of a write.
EditState(sf) ==
    /\ stateFile # sf
    /\ stateFile' = sf
    /\ last' = Op("edit", "", FALSE, "ok", "", {})
    /\ UNCHANGED <<fs, sharingFile, savedLive, liveOf, procVars>>

\* The metadata file of a stored profile is removed (node is NoNode) or
\* overwritten with bytes that do not decode.
DamageMeta(name, node) ==
    /\ Lstat(fs, AccountPath(name)).k = "dir"
    /\ Lstat(fs, MetaPath(name)) # node
    /\ fs' = SetAt(fs, MetaPath(name), node)
    /\ last' = Op("edit", name, FALSE, "ok", "", {})
    /\ UNCHANGED <<stateFile, sharingFile, savedLive, liveOf, procVars>>

\* A file that is no profile is left in the accounts directory.
StrayEntry(d) ==
    /\ Lstat(fs, AccountsDir).k = "dir"
    /\ ~Exists(Lstat(fs, Append(AccountsDir, "x.json")))
    /\ fs' = WriteFile(fs, Append(AccountsDir, "x.json"), File(d)).fs
    /\ last' = Op("edit", "", FALSE, "ok", "", {})
    /\ UNCHANGED <<stateFile, sharingFile, savedLive, liveOf, procVars>>

\* The profile store on its own: the tool's writes and the store's operations.
Next ==
    \/ \E d \in Data : CodexLogin(d)
    \/ \E d \in Data : CodexWrite(d)
    \/ CodexRemove
    \/ \E n \in ProfileNames : DoSave(n)
    \/ \E n \in ProfileNames : DoActivate(n)
    \/ \E n \in ProfileNames : DoDelete(n)
    \/ DoList

Spec == Init /\ [][Next]_vars

\* The store and the sharing commands together.
NextShare ==
    \/ \E d \in SmallData : CodexLogin(d)
    \/ \E d \in SmallData : CodexWrite(d)
    \/ CodexRemove
    \/ \E n \in ProfileNames : DoSave(n)
    \/ \E n \in ProfileNames : DoActivate(n)
    \/ \E n \in ProfileNames : DoDelete(n)
    \/ DoList
    \/ \E b \in IncludeSettings : DoEnable(b)
    \/ DoDisable

SpecShare == Init /\ [][NextShare]_vars

\* The store with the history of what each profile's last save held.
NextHist ==
    \/ \E d \in SmallData : CodexLogin(d)
    \/ \E d \in SmallData : CodexWrite(d)
    \/ CodexRemove
    \/ \E n \in ProfileNames : HistSave(n)
    \/ \E n \in ProfileNames : HistActivate(n)
    \/ \E n \in ProfileNames : HistDelete(n)
    \/ DoList

SpecHist == Init /\ [][NextHist]_vars

\* The store over files that other hands have damaged: a state record removed
\* or truncated, metadata files removed or undecodable, a stray file among
\* the profiles.
NextDegraded ==
    \/ \E d \in SmallData : CodexLogin(d)
    \/ \E d \in SmallData : CodexWrite(d)
    \/ \E sf \in {NoFile, CorruptFile} : EditState(sf)
    \/ \E n \in ProfileNames, node \in {NoNode} \cup {File(d) : d \in SmallData} :
          DamageMeta(n, node)
    \/ \E d \in SmallData : StrayEntry(d)
    \/ \E n \in ProfileNames : DoSave(n)
    \/ \E n \in ProfileNames : DoActivate(n)
    \/ \E n \in ProfileNames : DoDelete(n)
    \/ DoList
    \/ DoCurrent

SpecDegraded == Init /\ [][NextDegraded]_vars

\* The answers the callers of Manager.Enable give for includeSettings.
ManagerSettings == BOOLEAN

\* The sharing manager's operations called in any order on a live directory
\* the tool writes to, with a sharing.json other hands may have written.
NextManager ==
    \/ \E d \in SmallData : CodexLogin(d)
    \/ \E d \in SmallData : CodexWrite(d)
    \/ \E d \in SmallData : CodexConfigure(d)
    \/ CodexLinkSession
    \/ \E cf \in {GroupConfig, CorruptFile} : EditConfig(cf)
    \/ \E b \in ManagerSettings : ManagerEnable(b)
    \/ ManagerDisable
    \/ ManagerSetupSymlinks
    \/ ManagerRemoveSymlinks
    \/ DoStatus

SpecManager == Init /\ [][NextManager]_vars

\* The profiles saved and activated while the manager's operations run.
SwitchProfiles == {"a"}

\* Save and Activate of a profile among the sharing manager's operations.
NextSwitch ==
    \/ \E d \in SmallData : CodexLogin(d)
    \/ \E d \in SmallData : CodexWrite(d)
    \/ \E d \in SmallData : CodexConfigure(d)
    \/ EditConfig(GroupConfig)
    \/ \E b \in ManagerSettings : ManagerEnable(b)
    \/ ManagerDisable
    \/ ManagerSetupSymlinks
    \/ ManagerRemoveSymlinks
    \/ \E n \in SwitchProfiles : DoSave(n)
    \/ \E n \in SwitchProfiles : DoActivate(n)

SpecSwitch == Init /\ [][NextSwitch]_vars

---------------------------------------------------------------------------
(* Claims *)

\* x is held by y: a file or link is the same in y, a directory's entries are
\* all held by the entries of the same names in y.
RECURSIVE Within(_, _)
Within(x, y) ==
    IF x.k = "dir"
    THEN y.k = "dir" /\ \A n \in DOMAIN x.e : n \in DOMAIN y.e /\ Within(x.e[n], y.e[n])
    ELSE x = y

\* A directory without the store's metadata file.
WithoutMeta(node) ==
    IF node.k = "dir" THEN Dir([n \in DOMAIN node.e \ {".account.json"} |-> node.e[n]])
    ELSE node

\* C1: every successful Activate leaves the content the live directory held
\* immediately before the call (the store's own metadata file aside) in some
\* profile's snapshot.
C1_NoStateDiscarded ==
    [][(last'.op = "Activate" /\ last'.res = "ok" /\ Live(fs).k = "dir")
        => \E n \in ProfileNames :
              Within(WithoutMeta(Live(fs)), Lstat(fs', AccountPath(n)))]_vars

\* C2: after a successful Activate(n) with sharing disabled, the live
\* directory is exactly the live directory as it was when n was last saved
\* (by Save or by the save Activate does on the way), and Current() is n.
C2_ActivateRestoresSaved ==
    (last.op = "Activate" /\ last.res = "ok"
        /\ ~IsEnabled(LoadConfig(sharingFile).config))
    => (Live(fs) = savedLive[last.name] /\ Current(stateFile) = last.name)

\* C3: after a successful Save(n), every file and directory of the live
\* directory is under accounts/n at the same relative path with the same
\* content, List() holds n, Get(n) returns a profile named n, Current() is n.
C3_SaveSnapshotsLive ==
    (last.op = "Save" /\ last.res = "ok")
    => /\ Within(Live(fs), Lstat(fs, AccountPath(last.name)))
       /\ last.name \in Range(List(fs))
       /\ Get(fs, last.name) = [res |-> "ok", acc |-> last.name]
       /\ Current(stateFile) = last.name

\* The regular files under a node: their paths from the node and contents.
RECURSIVE RegularFiles(_, _)
RegularFiles(node, prefix) ==
    IF node.k = "file" THEN {<<prefix, node>>}
    ELSE IF node.k = "dir"
    THEN UNION {RegularFiles(node.e[n], Append(prefix, n)) : n \in DOMAIN node.e}
    ELSE {}

\* C4: when a is current and the live directory holds L, Activate(b), which
\* saves a on the way, followed by Activate(a) leaves the live directory with
\* exactly the regular files of L.
C4_RoundTripLossless ==
    [][(/\ last.op = "Activate" /\ last.res = "ok" /\ last.saved # ""
        /\ last'.op = "Activate" /\ last'.res = "ok" /\ last'.name = last.saved)
       => RegularFiles(Live(fs'), << >>) = RegularFiles(savedLive[last.saved], << >>)]_vars

\* C5: a successful Save(x) or Activate(x) leaves the state record
\* {current: x, previous: c}, c the value of current before the call; no other
\* operation (Delete, List, the sharing commands, the tool's writes) changes
\* the state record.
C5_StateRecord ==
    [][/\ (last'.op \in {"Save", "Activate"} /\ last'.res = "ok")
            => stateFile' = StateRec(last'.name, Current(stateFile))
       /\ last'.op \notin {"Save", "Activate"} => stateFile' = stateFile]_vars

\* An Activate that saved the current profile on the way and left it as the
\* previous one, with sharing enabled.
C5_Witness ==
    /\ last.op = "Activate" /\ last.res = "ok" /\ last.saved # ""
    /\ stateFile = StateRec(last.name, last.saved)
    /\ IsEnabled(LoadConfig(sharingFile).config)

\* C6: after a successful Delete(n), List() holds no entry named n and Get(n)
\* is NotFound; Delete(n) of a profile with no snapshot directory is NotFound
\* and changes nothing.
C6_Delete ==
    [][last'.op = "Delete"
       => /\ last'.res = "ok"
              => /\ last'.name \notin Range(List(fs'))
                 /\ Get(fs', last'.name).res = "notfound"
          /\ ~Exists(Stat(fs, AccountPath(last'.name)))
              => /\ last'.res = "notfound"
                 /\ fs' = fs /\ stateFile' = stateFile /\ sharingFile' = sharingFile]_vars

\* The current profile was deleted while the other profile is stored.
C6_Witness ==
    /\ last.op = "Delete" /\ last.res = "ok"
    /\ Current(stateFile) = last.name
    /\ Range(List(fs)) = ProfileNames \ {last.name}

\* C7: a deleted profile stays deleted: a profile that List() does not hold
\* comes to be held by List() only by Save of that profile; Activate of
\* another profile does not save a current profile whose snapshot is gone.
C7_DeletedStaysDeleted ==
    [][\A n \in ProfileNames :
          (n \notin Range(List(fs)) /\ n \in Range(List(fs')))
          => (last'.op = "Save" /\ last'.name = n)]_vars

\* C8: Activate(name) for a name with no snapshot directory is NotFound and
\* leaves the live directory, every snapshot and the state record as they were.
C8_ActivateMissing ==
    [][(last'.op = "Activate" /\ ~Exists(Stat(fs, AccountPath(last'.name))))
       => (last'.res = "notfound" /\ fs' = fs /\ stateFile' = stateFile)]_vars

\* Activate of a missing profile while another profile is current and stored
\* and the live directory exists.
C8_Witness ==
    /\ last.op = "Activate" /\ last.res = "notfound"
    /\ Exists(Live(fs))
    /\ Current(stateFile) \in Range(List(fs)) \ {last.name}

\* C9: Save(name) when the live directory does not exist is a precondition
\* error and changes nothing: no snapshot is created, removed or altered and
\* the state record is unchanged.
C9_SaveWithoutLive ==
    [][(last'.op = "Save" /\ ~Exists(Stat(fs, Home)))
       => (last'.res = "precondition" /\ fs' = fs /\ stateFile' = stateFile)]_vars

\* Save of a stored profile refused for want of a live directory.
C9_Witness ==
    /\ last.op = "Save" /\ last.res = "precondition"
    /\ last.name \in Range(List(fs))
    /\ Current(stateFile) # ""


\* C10: Enable(false) on a live directory that holds a populated mandatory
\* shareable item, with nothing at the item's shared location, succeeds, moves
\* the item's content to the shared root and leaves a symlink to the shared
\* path at the live path; the persisted mode is Global, IsEnabled() is true on
\* a manager that loads the configuration, and Status() gives the shared path
\* as the item's target.
C10_EnableMigrates ==
    [][(last'.op = "Enable" /\ ~last'.flag)
       => \A item \in Movable(fs) :
             LET c == LoadConfig(sharingFile').config
             IN  /\ last'.res = "ok"
                 /\ Lstat(fs', Append(SharedDir, item)) = Lstat(fs, Append(Home, item))
                 /\ Lstat(fs', Append(Home, item)) = Link(Append(SharedDir, item))
                 /\ c.mode = "global"
                 /\ IsEnabled(c)
                 /\ Status(fs', c).symlinks[item] = Append(SharedDir, item)]_vars

\* Enable(false) has moved the populated sessions directory to the shared root.
C10_Witness ==
    /\ last.op = "Enable" /\ last.res = "ok" /\ ~last.flag
    /\ "sessions" \in last.moved
    /\ "x.json" \in DOMAIN Lstat(fs, Append(SharedDir, "sessions")).e
    /\ Lstat(fs, Append(Home, "sessions")).k = "link"


\* The mandatory and the optional shareable items.
AllItems == Range(ShareableItems \o OptionalShareableItems)

\* C11: after a successful Disable(), the persisted mode is Disabled,
\* IsEnabled() is false on a manager that loads the configuration, no
\* mandatory or optional shareable item of the live directory is a symlink,
\* and each item that was a symlink is real data equal to the shared data the
\* symlink pointed at.
C11_DisableRestores ==
    [][(last'.op = "Disable" /\ last'.res = "ok")
       => /\ ~LoadConfig(sharingFile').err
          /\ LoadConfig(sharingFile').config.mode = "disabled"
          /\ ~IsEnabled(LoadConfig(sharingFile').config)
          /\ \A item \in AllItems :
                /\ Lstat(fs', Append(Home, item)).k # "link"
                /\ Lstat(fs, Append(Home, item)).k = "link"
                      => /\ Exists(Lstat(fs', Append(Home, item)))
                         /\ Lstat(fs', Append(Home, item)) = Stat(fs, Append(Home, item))]_vars

\* Disable has left the sessions and the settings file in the live directory
\* as copies of the shared ones.
C11_Witness ==
    /\ last.op = "Disable" /\ last.res = "ok"
    /\ sharingFile = DefaultConfig
    /\ Lstat(fs, Append(Home, "sessions")).k = "dir"
    /\ "x.json" \in DOMAIN Lstat(fs, Append(Home, "sessions")).e
    /\ Lstat(fs, Append(Home, "sessions")) = Lstat(fs, Append(SharedDir, "sessions"))
    /\ Lstat(fs, Append(Home, "config.toml")).k = "file"
    /\ Lstat(fs, Append(Home, "config.toml")) = Lstat(fs, Append(SharedDir, "config.toml"))


\* The items SetupSymlinks sets up under a configuration.
SharedItems(config) ==
    Range(ShareableItems)
        \cup (IF config.include_settings THEN Range(OptionalShareableItems) ELSE {})

\* C12: when the persisted sharing mode is Global, after every successful
\* Activate each mandatory shareable item of the live directory, and each
\* optional item when include_settings is set, is a symlink to the entry of the
\* same name in the shared root, and that entry exists.
C12_ActivateRelinks ==
    [][(/\ last'.op = "Activate" /\ last'.res = "ok"
        /\ ~LoadConfig(sharingFile).err
        /\ LoadConfig(sharingFile).config.mode = "global")
       => \A item \in SharedItems(LoadConfig(sharingFile).config) :
             /\ Lstat(fs', Append(Home, item)) = Link(Append(SharedDir, item))
             /\ Exists(Stat(fs', Append(SharedDir, item)))]_vars

\* Activate under Global mode with the settings shared, of a snapshot that
\* holds the sessions and the settings file as real data.
C12_Witness ==
    /\ last.op = "Activate" /\ last.res = "ok"
    /\ sharingFile = ConfigRec("global", TRUE, NoGroups)
    /\ Lstat(fs, AccountPath(last.name) \o << "sessions" >>).k = "dir"
    /\ Lstat(fs, AccountPath(last.name) \o << "config.toml" >>).k = "file"
    /\ Lstat(fs, Append(Home, "config.toml")).k = "link"


\* C13: the mandatory and optional shareable items are disjoint from the
\* always-private items, and after any sequence of Enable, Disable,
\* SetupSymlinks, RemoveSymlinks, Save and Activate no private item is in the
\* shared root or in a group's directory, nor is one a symlink in the live
\* directory.
C13_AuthStaysPrivate ==
    /\ Range(AccountSpecificItems) \cap AllItems = {}
    /\ \A p \in Range(AccountSpecificItems) :
          /\ Lstat(fs, Append(Home, p)).k # "link"
          /\ ~Exists(Lstat(fs, Append(SharedDir, p)))
          /\ \A n \in DOMAIN GroupConfig.groups :
                ~Exists(Lstat(fs, GroupsDir \o << GroupConfig.groups[n], p >>))

\* A profile activated under Global mode: the sessions are shared, the
\* credentials are a file of the live directory.
C13_Witness ==
    /\ last.op = "Activate" /\ last.res = "ok"
    /\ sharingFile # NoFile /\ sharingFile.mode = "global"
    /\ Lstat(fs, Append(Home, "auth.json")).k = "file"
    /\ Lstat(fs, Append(Home, "sessions")) = Link(Append(SharedDir, "sessions"))
    /\ "x.json" \in DOMAIN Stat(fs, Append(Home, "sessions")).e


\* C14: Enable persists the sharing configuration only after the symlink
\* set-up has succeeded: an Enable that fails leaves sharing.json as it was
\* before the call; an Enable that succeeds has linked every item it shares
\* and has written mode Global with the includeSettings it was given.
C14_EnablePersistsLast ==
    [][last'.op = "Enable"
       => /\ last'.res # "ok" => sharingFile' = sharingFile
          /\ last'.res = "ok"
                => /\ sharingFile' = [LoadConfig(sharingFile).config EXCEPT
                                         !.mode = "global",
                                         !.include_settings = last'.flag]
                   /\ \A item \in SharedItems(sharingFile') :
                         Lstat(fs', Append(Home, item)) = Link(Append(SharedDir, item))]_vars

\* Enable has failed after it made the shared root (there is no live
\* directory to link from) and sharing.json is still absent.
C14_Witness ==
    /\ last.op = "Enable" /\ last.res = "ioerror"
    /\ Lstat(fs, SharedDir).k = "dir"
    /\ sharingFile = NoFile


C16_LoadConfigTolerant ==
    /\ sharingFile.k # "config"
          => LoadConfig(sharingFile) = [config |-> DefaultConfig, err |-> FALSE]
    /\ last.op = "Status" => last.res = "ok"


\* C17: Current() returns no error: it gives the persisted current name when
\* the state record decodes and the empty string when the record is absent or
\* undecodable; Save and Activate on an absent or undecodable record go on as
\* on a record with current and previous empty.
C17_StateDegrades ==
    [][/\ last'.op = "Current"
             => /\ last'.res = "ok"
                /\ last'.name = IF stateFile.k = "state" THEN stateFile.current ELSE ""
       /\ (stateFile.k # "state" /\ last'.op = "Save")
             => /\ fs' = Save(fs, StateRec("", ""), last'.name).fs
                /\ last'.res = Save(fs, StateRec("", ""), last'.name).res
                /\ last'.res = "ok" => stateFile' = StateRec(last'.name, "")
       /\ (stateFile.k # "state" /\ last'.op = "Activate")
             => /\ fs' = Activate(fs, StateRec("", ""), sharingFile, last'.name).fs
                /\ last'.res = Activate(fs, StateRec("", ""), sharingFile, last'.name).res
                /\ last'.saved = ""
                /\ last'.res = "ok" => stateFile' = StateRec(last'.name, "")]_vars

\* A profile activated with no profile saved on the way and no previous one
\* recorded, while the other profile is stored: the state record was lost
\* after the other profile had been saved.
C17_Witness ==
    /\ last.op = "Activate" /\ last.res = "ok" /\ last.saved = ""
    /\ stateFile = StateRec(last.name, "")
    /\ \E n \in ProfileNames \ {last.name} :
          Get(fs, n) = [res |-> "ok", acc |-> n] /\ Exists(Stat(fs, MetaPath(n)))


\* The immediate subdirectories of the accounts root.
Subdirectories(root) ==
    {n \in Range(NameOrder) : Lstat(root, Append(AccountsDir, n)).k = "dir"}

\* The metadata file of name is there and does not decode.
CorruptMeta(root, name) ==
    /\ Stat(root, MetaPath(name)).k = "file"
    /\ "acc" \notin DOMAIN Stat(root, MetaPath(name))

\* C18: List() returns exactly the immediate subdirectories of the accounts
\* root for which Get succeeds, one entry each: a subdirectory with corrupt
\* metadata is left out, one with no metadata file is listed under the
\* directory's name, what is not a directory is ignored, and the result is
\* empty when there are no profiles.
C18_ListSkipsBroken ==
    LET listed == {n \in Subdirectories(fs) : Get(fs, n).res = "ok"}
    IN  /\ Range(List(fs)) = {Get(fs, n).acc : n \in listed}
        /\ Len(List(fs)) = Cardinality(listed)
        /\ \A n \in Subdirectories(fs) :
              /\ CorruptMeta(fs, n) => n \notin Range(List(fs))
              /\ ~Exists(Stat(fs, MetaPath(n))) => n \in Range(List(fs))
        /\ Range(List(fs)) \subseteq Subdirectories(fs)
        /\ Subdirectories(fs) = {} => List(fs) = << >>

\* The accounts root holds a profile with corrupt metadata, a profile with no
\* metadata file and a stray file: List() gives the second one alone.
C18_Witness ==
    /\ last.op = "List"
    /\ Exists(Lstat(fs, Append(AccountsDir, "x.json")))
    /\ \E n, m \in Subdirectories(fs) :
          /\ CorruptMeta(fs, n)
          /\ ~Exists(Stat(fs, MetaPath(m)))
          /\ List(fs) = << m >>


\* C19: in Group mode the set-up Activate runs links the shareable items of
\* the live directory into the directory of the group configured for the
\* account it activates, and does nothing only when that account has no group.
C19_GroupLinks ==
    [][(/\ last'.op = "Activate" /\ last'.res = "ok"
        /\ ~LoadConfig(sharingFile).err
        /\ LoadConfig(sharingFile).config.mode = "group")
       => LET c == LoadConfig(sharingFile).config
          IN  IF last'.name \in DOMAIN c.groups
              THEN \A item \in SharedItems(c) :
                      Lstat(fs', Append(Home, item))
                         = Link(GroupsDir \o << c.groups[last'.name], item >>)
              ELSE fs' = Activate(fs, stateFile, NoFile, last'.name).fs]_vars


\* C20: the sharing mode moves along Disabled -> Global -> Disabled and
\* Disabled -> Group -> Disabled only: no operation of the manager (Enable,
\* Disable, SetupSymlinks, RemoveSymlinks, loading the configuration) takes
\* the persisted mode from Group to Global or from Global to Group.
C20_ModeTransitions ==
    [][last'.op \in {"Enable", "Disable", "SetupSymlinks", "RemoveSymlinks", "Status"}
       => LET before == LoadConfig(sharingFile).config.mode
              after == LoadConfig(sharingFile').config.mode
          IN  /\ ~(before = "group" /\ after = "global")
              /\ ~(before = "global" /\ after = "group")]_vars


\* The symbolic links under a node: their paths from the node and targets.
RECURSIVE Symlinks(_, _)
Symlinks(node, prefix) ==
    IF node.k = "link" THEN {<<prefix, node.t>>}
    ELSE IF node.k = "dir"
    THEN UNION {Symlinks(node.e[n], Append(prefix, n)) : n \in DOMAIN node.e}
    ELSE {}

\* C21: Save and Activate never dereference symlinks: after a successful
\* Save(n) the symlinks of the snapshot of n are those of the live directory,
\* at the same relative paths with the same targets, and each item that is a
\* symlink in the live directory is a symlink in the snapshot, no copy of the
\* shared data; after a successful Activate(n) every symlink of the snapshot
\* of n is in the live directory with the same target.
C21_SymlinksPreserved ==
    [][/\ (last'.op = "Save" /\ last'.res = "ok")
             => /\ Symlinks(Lstat(fs', AccountPath(last'.name)), << >>)
                      = Symlinks(Live(fs), << >>)
                /\ \A item \in AllItems :
                      Lstat(fs, Append(Home, item)).k = "link"
                         => Lstat(fs', Append(AccountPath(last'.name), item))
                               = Lstat(fs, Append(Home, item))
       /\ (last'.op = "Activate" /\ last'.res = "ok")
             => Symlinks(Lstat(fs, AccountPath(last'.name)), << >>)
                   \subseteq Symlinks(Live(fs'), << >>)]_vars

\* A Save taken while the sessions are shared: the snapshot holds the symlink
\* to the shared sessions, which hold a file.
C21_Witness ==
    /\ last.op = "Save" /\ last.res = "ok"
    /\ Lstat(fs, Append(AccountPath(last.name), "sessions"))
          = Link(Append(SharedDir, "sessions"))
    /\ "x.json" \in DOMAIN Lstat(fs, Append(SharedDir, "sessions")).e


\* C22: re-saving overwrites and never merges: after a successful Save(n) the
\* snapshot of n is exactly the live directory with the metadata file of n at
\* the metadata path, so nothing that was only in the previous snapshot of n
\* remains; the snapshot directory of n is the one entry of that name in the
\* accounts root.
C22_SaveOverwrites ==
    [][(last'.op = "Save" /\ last'.res = "ok")
       => /\ Lstat(fs', AccountPath(last'.name))
                = SetAt(Live(fs), << ".account.json" >>, MetaFile(last'.name))
          /\ RegularFiles(WithoutMeta(Lstat(fs', AccountPath(last'.name))), << >>)
                = RegularFiles(WithoutMeta(Live(fs)), << >>)
          /\ last'.name \in Subdirectories(fs')
          /\ Live(fs') = Live(fs)]_vars

\* A profile saved again while it was the current one, from a live directory
\* without sessions, while the other snapshot holds a sessions file.
C22_Witness ==
    /\ last.op = "Save" /\ last.res = "ok"
    /\ stateFile = StateRec(last.name, last.name)
    /\ ~Exists(Lstat(fs, Append(AccountPath(last.name), "sessions")))
    /\ \E m \in ProfileNames \ {last.name} :
          Exists(Lstat(fs, AccountPath(m) \o << "sessions", "x.json" >>))


\* The items that are real data (a file or a directory) in the live directory.
RealItems(root, config) ==
    {item \in SharedItems(config) : Lstat(root, Append(Home, item)).k \in {"file", "dir"}}

\* C23: when the symlinks are set up under Global mode (by Enable or by
\* SetupSymlinks) and the set-up succeeds, an item that is real data in the
\* live directory is moved to the shared location when nothing is there, and
\* is discarded with the shared copy left as it was when something is there;
\* in both cases the live path ends as a symlink to the shared entry.
C23_MigrateOrDiscard ==
    [][(/\ last'.op \in {"Enable", "SetupSymlinks"} /\ last'.res = "ok"
        /\ LoadConfig(sharingFile').config.mode = "global")
       => \A item \in RealItems(fs, LoadConfig(sharingFile').config) :
             /\ Lstat(fs', Append(SharedDir, item))
                   = IF Exists(Stat(fs, Append(SharedDir, item)))
                     THEN Lstat(fs, Append(SharedDir, item))
                     ELSE Lstat(fs, Append(Home, item))
             /\ Lstat(fs', Append(Home, item)) = Link(Append(SharedDir, item))]_vars

\* Enable has found nothing to move, and the settings file is a symlink to a
\* shared settings file that holds data: the local one was discarded or there
\* was none.
C23_Witness ==
    /\ last.op = "Enable" /\ last.res = "ok" /\ last.flag
    /\ last.moved = {}
    /\ "x.json" \in DOMAIN Lstat(fs, Append(SharedDir, "sessions")).e
    /\ Lstat(fs, Append(Home, "sessions")) = Link(Append(SharedDir, "sessions"))
    /\ Lstat(fs, Append(SharedDir, "config.toml")).k = "file"
    /\ Lstat(fs, Append(SharedDir, "config.toml")).d # 0


\* C24: SetupSymlinks changes nothing when sharing is disabled, and a second
\* run does nothing: after a successful SetupSymlinks or Enable, SetupSymlinks
\* under the persisted configuration succeeds and leaves the live directory
\* and the shared root as they are.
C24_SetupIdempotent ==
    [][/\ (last'.op = "SetupSymlinks" /\ ~IsEnabled(LoadConfig(sharingFile).config))
             => (fs' = fs /\ last'.res = "ok")
       /\ (last'.op \in {"SetupSymlinks", "Enable"} /\ last'.res = "ok")
             => SetupSymlinks(fs', LoadConfig(sharingFile').config)
                   = [fs |-> fs', err |-> FALSE]]_vars

\* SetupSymlinks has run under Global mode with the settings shared, on a
\* live directory whose items are symlinks to the shared ones.
C24_Witness ==
    /\ last.op = "SetupSymlinks" /\ last.res = "ok"
    /\ sharingFile # NoFile /\ LoadConfig(sharingFile).config.mode = "global"
    /\ LoadConfig(sharingFile).config.include_settings
    /\ \A item \in AllItems :
          Lstat(fs, Append(Home, item)) = Link(Append(SharedDir, item))
    /\ "x.json" \in DOMAIN Lstat(fs, Append(SharedDir, "sessions")).e


C28_DisabledNoLinks ==
    (/\ last.res = "ok"
     /\ ~LoadConfig(sharingFile).err
     /\ ~IsEnabled(LoadConfig(sharingFile).config))
    => \A item \in AllItems :
          LET n == Lstat(fs, Append(Home, item))
          IN  n.k = "link" => SubSeq(n.t, 1, Len(SharedDir)) # SharedDir

---------------------------------------------------------------------------
(* The store given any name *)

\* The names cxa save gives to Save and callers give to Delete: the argument
\* goes to the repository as it was typed, the empty name included.
GivenNames == ProfileNames \cup {""}

\* The store with the empty name among the names saved and deleted.  (A
\* switch to the empty name is left out: it copies the profiles into
\* ~/.codex, and the saves that follow nest them without bound.)
NextNames ==
    \/ \E d \in SmallData : CodexLogin(d)
    \/ \E d \in SmallData : CodexWrite(d)
    \/ CodexRemove
    \/ \E n \in GivenNames : DoSave(n)
    \/ \E n \in ProfileNames : DoActivate(n)
    \/ \E n \in GivenNames : DoDelete(n)
    \/ DoList

SpecNames == Init /\ [][NextNames]_vars

\* C30: Save(n) and Delete(n), for every name n they are given (the empty
\* name included), leave the snapshot of every other stored profile m # n
\* as it was before the call.
C30_OtherSnapshotsKept ==
    [][last'.op \in {"Save", "Delete"}
       => \A m \in ProfileNames \ {last'.name} :
             Lstat(fs, AccountPath(m)).k = "dir"
                => Lstat(fs', AccountPath(m)) = Lstat(fs, AccountPath(m))]_vars

---------------------------------------------------------------------------
(* The store over files that may not be read *)

SessionFile(dir) == dir \o << "sessions", "x.json" >>

\* chmod 000 on the file at p.
Protect(p) ==
    /\ Lstat(fs, p).k = "file"
    /\ Readable(Lstat(fs, p))
    /\ fs' = SetAt(fs, p, Unreadable(Lstat(fs, p).d))
    /\ last' = Op("edit", "", FALSE, "ok", "", {})
    /\ UNCHANGED <<stateFile, sharingFile, savedLive, liveOf, procVars>>

\* The session file of the live directory is made unreadable.
ProtectLive == Protect(SessionFile(Home))

\* The session file of a stored snapshot is made unreadable.
ProtectSnapshot(name) == Protect(SessionFile(AccountPath(name)))

\* cxa save <name>, with liveOf kept: a live directory saved as name is
\* name's.
TrackSave(name) ==
    /\ SaveStep(name)
    /\ liveOf' = IF last'.res = "ok" THEN name ELSE liveOf
    /\ UNCHANGED <<savedLive, procVars>>

\* cxa switch <name>, with liveOf kept: from the moment Activate removes
\* ~/.codex to copy name's snapshot there, what ~/.codex holds is restored
\* from name, whether the copy ends or not.
TrackActivate(name) ==
    /\ ActivateStep(name)
    /\ liveOf' = IF /\ Exists(Stat(fs, AccountPath(name)))
                    /\ SaveCurrent(fs, stateFile, name).res = "ok"
                 THEN name ELSE liveOf
    /\ UNCHANGED <<savedLive, procVars>>

\* The store with files that some hand has made unreadable, in the live
\* directory and in the snapshots.
NextFail ==
    \/ \E d \in Data : CodexLogin(d)
    \/ \E d \in SmallData : CodexWrite(d)
    \/ ProtectLive
    \/ \E n \in ProfileNames : ProtectSnapshot(n)
    \/ \E n \in ProfileNames : TrackSave(n)
    \/ \E n \in ProfileNames : TrackActivate(n)

SpecFail == Init /\ [][NextFail]_vars

\* C26: when the implicit save of Activate fails, Activate returns an error,
\* the live directory is as it was before the call and the state record is
\* not written; when the copy of the snapshot into the live directory fails,
\* Activate returns an error and current is what it was before the call; in
\* neither case does current become the requested name.
C26_ActivateFailure ==
    [][(last'.op = "Activate" /\ Exists(Stat(fs, AccountPath(last'.name))))
       => LET s == SaveCurrent(fs, stateFile, last'.name)
              c == copyDir(RemoveAll(s.fs, Home), AccountPath(last'.name), Home)
          IN  /\ s.res # "ok"
                   => /\ last'.res = "ioerror"
                      /\ Live(fs') = Live(fs)
                      /\ stateFile' = stateFile
                      /\ Current(stateFile') # last'.name
              /\ (s.res = "ok" /\ c.err)
                   => /\ last'.res = "ioerror"
                      /\ Current(stateFile') = Current(stateFile)
                      /\ last'.saved # "" => Current(stateFile') # last'.name]_vars

\* Activate has failed in its implicit save: the live directory holds a file
\* that may not be read, and holds it still.
C26_Witness ==
    /\ last.op = "Activate" /\ last.res = "ioerror" /\ last.saved # ""
    /\ ~Readable(Lstat(fs, SessionFile(Home)))
    /\ Current(stateFile) = last.saved

\* C29: the implicit save of Activate saves as p a live directory that is
\* p's: one saved as p or restored from p's snapshot, never one that an
\* Activate(q) of another profile q has copied there, in full or in part.
C29_ImplicitSaveOwnContent ==
    [][(last'.op = "Activate" /\ last'.saved # "")
       => liveOf \in {"", last'.saved}]_vars

---------------------------------------------------------------------------
(* Two processes at once *)

\* The live directory as the tool leaves it for an account with data d.
RaceLive(root, d) ==
    WriteFile(WriteFile(MkdirAll(root, Append(Home, "sessions")).fs,
                        Append(Home, "auth.json"), File(d)).fs,
              SessionFile(Home), File(d)).fs

\* The store before the two processes start: profile a was saved, then
\* profile b with other data, then a activated again.
RaceA == Save(RaceLive(EmptyDir, 1), NoFile, "a")

RaceB == Save(RaceLive(RaceA.fs, MaxData), RaceA.state, "b")

RaceStart == Activate(RaceB.fs, RaceB.state, NoFile, "a")

InitRace ==
    /\ fs = RaceStart.fs
    /\ stateFile = RaceStart.state
    /\ sharingFile = NoFile
    /\ savedLive = [n \in ProfileNames |-> NoNode]
    /\ last = Op("init", "", FALSE, "ok", "", {})
    /\ liveOf = "a"
    /\ procs = [p \in Procs |-> Idle]
    /\ beforeWrite = "b"
    /\ overlap = FALSE

\* p is in the middle of its operation.
Running(p) == procs[p].pc \notin {"idle", "done"}

\* The process has ended with result res.
Ended(pr, res) == Proc("done", pr.op, pr.name, << >>, pr.loaded, res)

\* The process goes on at pc with the names todo left to copy.
GoesOn(pr, pc, todo) == Proc(pc, pr.op, pr.name, todo, pr.loaded, "")

\* The names of a directory's entries in the order filepath.Walk visits them.
EntryNames(node) == SelectSeq(NameOrder, LAMBDA n : n \in DOMAIN node.e)

\* The directory a process copies from, and the one it copies to.
CopySrc(pr) == IF pr.op = "Save" THEN Home ELSE AccountPath(pr.name)

CopyDst(pr) == IF pr.op = "Save" THEN AccountPath(pr.name) ELSE Home

\* The step that follows the copy of the last entry.
AfterCopy(pr) == IF pr.op = "Save" THEN "meta" ELSE "read"

\* A step of process p: the files and the state record after it, and the
\* process after it.
ProcStep(p, root, sf, pr) ==
    /\ fs' = root
    /\ stateFile' = sf
    /\ procs' = [procs EXCEPT ![p] = pr]
    /\ overlap' = (overlap \/ \E q \in Procs \ {p} : Running(q))
    /\ UNCHANGED <<sharingFile, savedLive, last>>

\* Save begins: the check of ~/.codex, EnsureDirs, and the old snapshot
\* removed.
SaveBegin(p, name) ==
    /\ procs[p].pc = "idle"
    /\ IF ~CodexExists(fs)
       THEN ProcStep(p, fs, stateFile, Ended(Proc("", "Save", name, << >>, StateRec("", ""), ""), "precondition"))
       ELSE ProcStep(p, RemoveAll(EnsureDirs(fs), AccountPath(name)), stateFile,
                     Proc("walk", "Save", name, << >>, StateRec("", ""), ""))
    /\ UNCHANGED <<liveOf, beforeWrite>>

\* Activate begins: the check of the snapshot, the save of the current
\* profile (in one step), and ~/.codex removed.
ActivateBegin(p, name) ==
    /\ procs[p].pc = "idle"
    /\ LET s == SaveCurrent(fs, stateFile, name)
           pr == Proc("walk", "Activate", name, << >>, StateRec("", ""), "")
       IN  IF ~Exists(Stat(fs, AccountPath(name)))
           THEN /\ ProcStep(p, fs, stateFile, Ended(pr, "notfound"))
                /\ UNCHANGED <<liveOf, beforeWrite>>
           ELSE IF s.res # "ok"
           THEN /\ ProcStep(p, s.fs, s.state, Ended(pr, "ioerror"))
                /\ UNCHANGED <<liveOf, beforeWrite>>
           ELSE /\ ProcStep(p, RemoveAll(s.fs, Home), s.state, pr)
                /\ liveOf' = name
                /\ beforeWrite' = IF ImplicitSave(fs, stateFile, name) # ""
                                  THEN Current(stateFile) ELSE beforeWrite

\* filepath.Walk starts: the source directory is read and its names listed,
\* the destination directory made.
WalkStart(p) ==
    /\ procs[p].pc = "walk"
    /\ LET pr == procs[p]
           src == Lstat(fs, CopySrc(pr))
           m == MkdirAll(fs, CopyDst(pr))
       IN  IF src.k # "dir" THEN ProcStep(p, fs, stateFile, Ended(pr, "ioerror"))
           ELSE IF m.err THEN ProcStep(p, m.fs, stateFile, Ended(pr, "ioerror"))
           ELSE ProcStep(p, m.fs, stateFile,
                         GoesOn(pr, IF EntryNames(src) = << >> THEN AfterCopy(pr)
                                    ELSE "copy", EntryNames(src)))
    /\ UNCHANGED <<liveOf, beforeWrite>>

\* The walk copies the next entry it listed, as the entry is now.
CopyStep(p) ==
    /\ procs[p].pc = "copy"
    /\ LET pr == procs[p]
           nm == Head(pr.todo)
           c == CopyNode(fs, Lstat(fs, Append(CopySrc(pr), nm)), Append(CopyDst(pr), nm))
       IN  IF ~Exists(Lstat(fs, Append(CopySrc(pr), nm)))
           THEN ProcStep(p, fs, stateFile, Ended(pr, "ioerror")) /\ UNCHANGED liveOf
           ELSE IF c.err
           THEN ProcStep(p, c.fs, stateFile, Ended(pr, "ioerror")) /\ UNCHANGED liveOf
           ELSE /\ ProcStep(p, c.fs, stateFile,
                            GoesOn(pr, IF Tail(pr.todo) = << >> THEN AfterCopy(pr)
                                       ELSE "copy", Tail(pr.todo)))
                /\ liveOf' = IF pr.op = "Activate" THEN pr.name ELSE liveOf
    /\ UNCHANGED beforeWrite

\* Save writes the metadata file: the live directory is saved as name.
MetaStep(p) ==
    /\ procs[p].pc = "meta"
    /\ LET pr == procs[p]
           w == WriteFile(fs, MetaPath(pr.name), MetaFile(pr.name))
       IN  IF w.err
           THEN ProcStep(p, w.fs, stateFile, Ended(pr, "ioerror")) /\ UNCHANGED liveOf
           ELSE ProcStep(p, w.fs, stateFile, GoesOn(pr, "read", << >>))
                /\ liveOf' = pr.name
    /\ UNCHANGED beforeWrite

\* saveState loads the state record (Activate has set up the symlinks
\* before, when sharing is enabled).
ReadState(p) ==
    /\ procs[p].pc = "read"
    /\ ProcStep(p, IF procs[p].op = "Activate" THEN Relink(fs, LoadConfig(sharingFile))
                   ELSE fs,
                stateFile,
                Proc("write", procs[p].op, procs[p].name, << >>, loadState(stateFile), ""))
    /\ UNCHANGED <<liveOf, beforeWrite>>

\* saveState writes the record it made from the one it loaded.
WriteState(p) ==
    /\ procs[p].pc = "write"
    /\ ProcStep(p, EnsureDirs(fs), writeState(procs[p].loaded, procs[p].name),
                Ended(procs[p], "ok"))
    /\ beforeWrite' = Current(stateFile)
    /\ UNCHANGED liveOf

\* Two processes, each running one Save or one Activate, their steps
\* interleaved in any order.
NextRace ==
    \/ \E p \in Procs, n \in ProfileNames : SaveBegin(p, n)
    \/ \E p \in Procs, n \in ProfileNames : ActivateBegin(p, n)
    \/ \E p \in Procs : WalkStart(p)
    \/ \E p \in Procs : CopyStep(p)
    \/ \E p \in Procs : MetaStep(p)
    \/ \E p \in Procs : ReadState(p)
    \/ \E p \in Procs : WriteState(p)

SpecRace == InitRace /\ [][NextRace]_vars

\* No process is in the middle of an operation.
Quiet == \A p \in Procs : ~Running(p)

\* current names a profile other than the one the live directory was last
\* saved as or restored from.
StaleCurrent == Current(stateFile) # liveOf

\* The live directory holds an entry that is profile n's and not m's next to
\* one that is m's and not n's.
Mixed ==
    \E n, m \in ProfileNames :
        \E f, g \in DOMAIN WithoutMeta(Live(fs)).e :
            /\ Live(fs).e[f] = Lstat(fs, Append(AccountPath(n), f))
            /\ Live(fs).e[f] # Lstat(fs, Append(AccountPath(m), f))
            /\ Live(fs).e[g] = Lstat(fs, Append(AccountPath(m), g))
            /\ Live(fs).e[g] # Lstat(fs, Append(AccountPath(n), g))

\* previous is not what current was just before the last write.
LostUpdate == loadState(stateFile).previous # beforeWrite

Corrupted == Quiet /\ (StaleCurrent \/ Mixed \/ LostUpdate)

\* C27: two processes without a lock reach a corrupted state, and they
\* reach one only by interleaving: when the processes have ended with the
\* state record naming a profile the live directory is not, or the live
\* directory mixing two profiles, or previous not the current before the
\* last write, a process has taken a step while the other was running.
C27_CorruptedOnlyByOverlap == Corrupted => overlap

\* Both processes have ended without an error and the state is corrupted in
\* the three ways at once.
C27_Witness ==
    /\ \A p \in Procs : procs[p].pc = "done" /\ procs[p].res = "ok"
    /\ StaleCurrent /\ Mixed /\ LostUpdate

\* C31: when Activate returns an error, the state record is what it was
\* before the call, in its current and in its previous field.
C31_FailedActivateKeepsState ==
    [][(last'.op = "Activate" /\ last'.res # "ok")
       => /\ loadState(stateFile').current = loadState(stateFile).current
          /\ loadState(stateFile').previous = loadState(stateFile).previous]_vars

====
